---- MODULE Spec2Model ----
(***************************************************************************)
(* A model of bingnews.py, the command line client of the Bing News Search *)
(* API: the three click subcommands, search_and_output_bing, and the       *)
(* normalisation / rendering pipeline of print_bing_results.  One          *)
(* behaviour of Spec is one invocation of the CLI.                         *)
(*                                                                         *)
(* Text is modelled character by character: Python strings are TLA+        *)
(* strings, and textwrap.wrap is the chunk splitter and the greedy line    *)
(* filler of the standard library with the defaults the program uses       *)
(* (break_long_words, break_on_hyphens, drop_whitespace all true).         *)
(***************************************************************************)
EXTENDS Integers, Sequences, FiniteSets, TLC

(***************************************************************************)
(* Strings.                                                                *)
(***************************************************************************)
CharAt(s, i) == IF i >= 1 /\ i <= Len(s) THEN SubSeq(s, i, i) ELSE ""

\* s[from-1 : to] of Python, in 1-based inclusive positions
Slice(s, from, to) == IF from > to THEN "" ELSE SubSeq(s, from, to)

Letters ==
    {"a","b","c","d","e","f","g","h","i","j","k","l","m","n","o","p","q","r",
     "s","t","u","v","w","x","y","z","A","B","C","D","E","F","G","H","I","J",
     "K","L","M","N","O","P","Q","R","S","T","U","V","W","X","Y","Z"}

Digits == {"0","1","2","3","4","5","6","7","8","9"}

\* string.whitespace after _munge_whitespace: every whitespace character has
\* become a space
IsSpace(c) == c = " "

\* letter = [^\d\W]
IsLetter(c) == c \in Letters \cup {"_"}

\* \w
IsWordChar(c) == c \in Letters \cup Digits \cup {"_"}

\* word_punct = [\w!"'&.,?]
IsWordPunct(c) == IsWordChar(c) \/ c \in {"!", "\"", "'", "&", ".", ",", "?"}

\* str.strip() == '' : the chunk holds nothing but whitespace
IsBlank(s) == \A i \in 1..Len(s) : IsSpace(CharAt(s, i))

\* the position after the run of spaces (of hyphens) that starts at p
SpaceRunEnd(s, p) ==
    CHOOSE e \in p..(Len(s) + 1) :
        /\ ~IsSpace(CharAt(s, e))
        /\ \A j \in p..(e - 1) : IsSpace(CharAt(s, j))

HyphenRunEnd(s, p) ==
    CHOOSE e \in p..(Len(s) + 1) :
        /\ CharAt(s, e) /= "-"
        /\ \A j \in p..(e - 1) : CharAt(s, j) = "-"

\* -{2,} (?=\w) matched at position p: at least two hyphens, all the hyphens
\* of the run, and a word character right after them
EmDashAt(s, p) ==
    LET e == HyphenRunEnd(s, p)
    IN  e - p >= 2 /\ IsWordChar(CharAt(s, e))

\* the hyphen at position q ends a hyphenated chunk:
\*   -(?: (?<=lt{2}-) | (?<=lt-lt-)) (?= lt -? lt)
HyphenBreakAt(s, q) ==
    /\ CharAt(s, q) = "-"
    /\ \/ IsLetter(CharAt(s, q - 2)) /\ IsLetter(CharAt(s, q - 1))
       \/ /\ IsLetter(CharAt(s, q - 3))
          /\ CharAt(s, q - 2) = "-"
          /\ IsLetter(CharAt(s, q - 1))
    /\ IsLetter(CharAt(s, q + 1))
    /\ \/ CharAt(s, q + 2) = "-" /\ IsLetter(CharAt(s, q + 3))
       \/ IsLetter(CharAt(s, q + 2))

\* nws+? (?: hyphenated | end of word | em-dash ) with e the last position
\* of the lazily grown run: which alternative, if any, closes the chunk
WordClosesAt(s, e) ==
    \/ HyphenBreakAt(s, e + 1)
    \/ e >= Len(s) \/ IsSpace(CharAt(s, e + 1))
    \/ IsWordPunct(CharAt(s, e)) /\ EmDashAt(s, e + 1)

\* the last position of the word chunk that starts at p: the shortest run
\* that one of the alternatives closes, with its closing hyphen if any
WordChunkEnd(s, p) ==
    LET e == CHOOSE i \in p..Len(s) :
                 /\ WordClosesAt(s, i)
                 /\ \A j \in p..(i - 1) : ~WordClosesAt(s, j)
    IN  IF HyphenBreakAt(s, e + 1) THEN e + 1 ELSE e

\* the last position of the chunk wordsep_re matches at position p
ChunkEnd(s, p) ==
    IF IsSpace(CharAt(s, p)) THEN SpaceRunEnd(s, p) - 1
    ELSE IF IsWordPunct(CharAt(s, p - 1)) /\ EmDashAt(s, p)
         THEN HyphenRunEnd(s, p) - 1
    ELSE WordChunkEnd(s, p)

\* TextWrapper._split: the chunks of the text from position p on
RECURSIVE SplitFrom(_, _)
SplitFrom(s, p) ==
    IF p > Len(s) THEN <<>>
    ELSE LET e == ChunkEnd(s, p)
         IN  <<Slice(s, p, e)>> \o SplitFrom(s, e + 1)

Split(text) == SplitFrom(text, 1)

RECURSIVE Join(_, _)
Join(sep, parts) ==
    IF parts = <<>> THEN ""
    ELSE IF Len(parts) = 1 THEN parts[1]
    ELSE parts[1] \o sep \o Join(sep, Tail(parts))

RECURSIVE SumLen(_)
SumLen(parts) ==
    IF parts = <<>> THEN 0 ELSE Len(Head(parts)) + SumLen(Tail(parts))

\* the inner while loop of _wrap_chunks: how many leading chunks fit on the
\* current line of the given width
RECURSIVE FitCount(_, _, _)
FitCount(chunks, cur_len, width) ==
    IF chunks = <<>> THEN 0
    ELSE IF cur_len + Len(Head(chunks)) <= width
         THEN 1 + FitCount(Tail(chunks), cur_len + Len(Head(chunks)), width)
    ELSE 0

\* chunk.rfind('-', 0, space_left): the 0-based index of the last hyphen
\* among the first space_left characters, or -1
RFindHyphen(chunk, space_left) ==
    LET found == {i \in 1..space_left : CharAt(chunk, i) = "-"}
    IN  IF found = {} THEN -1
        ELSE (CHOOSE i \in found : \A j \in found : j <= i) - 1

\* TextWrapper._handle_long_word with break_long_words and break_on_hyphens:
\* the number of characters of the chunk that go on the current line
LongWordCut(chunk, space_left) ==
    LET hyphen == RFindHyphen(chunk, space_left)
    IN  IF /\ Len(chunk) > space_left
           /\ hyphen > 0
           /\ \E i \in 1..hyphen : CharAt(chunk, i) /= "-"
        THEN hyphen + 1
        ELSE space_left

\* TextWrapper._wrap_chunks: one pass of the outer loop per line
RECURSIVE WrapChunks(_, _, _)
WrapChunks(chunks, lines, width) ==
    IF chunks = <<>> THEN lines
    ELSE
      LET c0 == IF IsBlank(Head(chunks)) /\ lines /= <<>>
                THEN Tail(chunks) ELSE chunks
          k == FitCount(c0, 0, width)
          fitted == SubSeq(c0, 1, k)
          rest == SubSeq(c0, k + 1, Len(c0))
          long == rest /= <<>> /\ Len(Head(rest)) > width
          cut == IF long THEN LongWordCut(Head(rest), width - SumLen(fitted))
                 ELSE 0
          cur_line == IF long
                      THEN Append(fitted, Slice(Head(rest), 1, cut))
                      ELSE fitted
          rest2 == IF long
                   THEN <<Slice(Head(rest), cut + 1, Len(Head(rest)))>>
                        \o Tail(rest)
                   ELSE rest
          kept == IF cur_line /= <<>> /\ IsBlank(cur_line[Len(cur_line)])
                  THEN SubSeq(cur_line, 1, Len(cur_line) - 1)
                  ELSE cur_line
          lines2 == IF kept /= <<>> THEN Append(lines, Join("", kept))
                    ELSE lines
      IN  WrapChunks(rest2, lines2, width)

\* textwrap.wrap(text, width=width)
Wrap(text, width) == WrapChunks(Split(text), <<>>, width)

(***************************************************************************)
(* Python objects.  A dict is a function on its keys; a key is present     *)
(* when it is in the DOMAIN.                                               *)
(***************************************************************************)
EmptyDict == [k \in {} |-> k]

\* d[k] = v on a dict
SetKey(d, k, v) == [x \in DOMAIN d \cup {k} |-> IF x = k THEN v ELSE d[x]]

\* the value of a variable that holds nothing yet
None == [None |-> TRUE]

(***************************************************************************)
(* Inputs of one invocation.                                               *)
(***************************************************************************)
\* the most articles a response carries
MaxArticles == 2

\* click.Choice lists of the cat and trend subcommands
Categories ==
    {"Business", "ScienceAndTechnology", "Sports", "World", "Entertainment"}

Markets == {"en-GB", "en-US"}

\* phrases typed by the user
Phrases == {"election", "budget"}

KeyValue == "0123456789abcdef"

EndpointValue == "https://api.bing.microsoft.com/"

\* the process environment after load_dotenv(): each variable set or absent
Environments ==
    { EmptyDict,
      [BING_SEARCH_KEY |-> KeyValue],
      [BING_SEARCH_ENDPOINT |-> EndpointValue],
      [BING_SEARCH_KEY |-> KeyValue, BING_SEARCH_ENDPOINT |-> EndpointValue] }

\* os.getenv(name): None when the variable is absent; str is what an
\* f-string makes of the result
Getenv(e, name) ==
    IF name \in DOMAIN e THEN [is_none |-> FALSE, str |-> e[name]]
    ELSE [is_none |-> TRUE, str |-> "None"]

Reuters == [name |-> "Reuters", _type |-> "Organization"]

LongName == "Markets steady as investors await rate decision"

LongDescription ==
    "Stocks were little changed as traders awaited a closely watched "
    \o "decision."

\* a standard search hit
StandardArticle ==
    [name |-> "Election results announced",
     description |-> "Officials published the final count.",
     url |-> "https://news.example.com/election"]

\* a standard search hit whose title and description need wrapping
LongArticle ==
    [name |-> LongName,
     description |-> LongDescription,
     url |-> "https://news.example.com/markets"]

\* a trending-topic record
TrendingArticle ==
    [name |-> "Budget vote",
     webSearchUrl |-> "https://www.bing.com/news/search?q=Budget+vote",
     image |-> [provider |-> <<Reuters>>]]

\* a record that has the two trending keys and fields of its own as well
HybridArticle ==
    [name |-> "Storm warning",
     webSearchUrl |-> "https://www.bing.com/news/search?q=Storm+warning",
     image |-> [provider |-> <<[name |-> "AP", _type |-> "Organization"]>>],
     description |-> "Heavy rain is expected.",
     url |-> "https://news.example.com/storm"]

\* a trending-topic record without a provider
NoProviderArticle ==
    [name |-> "Cup final",
     webSearchUrl |-> "https://www.bing.com/news/search?q=Cup+final",
     image |-> [provider |-> <<>>]]

\* a standard record without a description
NoDescriptionArticle ==
    [name |-> "Transfer news",
     url |-> "https://news.example.com/transfer"]

\* a record without a name: not trending, whatever else it carries
NoNameArticle ==
    [webSearchUrl |-> "https://www.bing.com/news/search?q=Untitled",
     description |-> "A record without a name.",
     url |-> "https://news.example.com/untitled"]

Articles ==
    { StandardArticle, LongArticle, TrendingArticle, HybridArticle,
      NoProviderArticle, NoDescriptionArticle, NoNameArticle }

ArticleLists == UNION { [1..n -> Articles] : n \in 0..MaxArticles }

\* the JSON objects a response body can hold
Bodies ==
    { [value |-> l] : l \in ArticleLists }
    \cup { [value |-> l, totalEstimatedMatches |-> 42] : l \in ArticleLists }
    \cup { [_type |-> "News"],
           [_type |-> "News", totalEstimatedMatches |-> 42] }

\* the body of an error answer; the program never reads it
ErrorBody == [_type |-> "ErrorResponse"]

\* a body that is empty or not JSON
NoBody == [_type |-> "None"]

\* the answers of the search endpoint: status code, whether the body
\* decodes as JSON, and the decoded body.  200 carries any body, 304 (Not
\* Modified) carries none, 404 and 500 carry an error object.
Responses ==
    { [status_code |-> 200, is_json |-> TRUE, body |-> b] : b \in Bodies }
    \cup { [status_code |-> c, is_json |-> FALSE, body |-> NoBody] :
          c \in {200, 304} }
    \cup { [status_code |-> c, is_json |-> TRUE, body |-> ErrorBody] :
          c \in {404, 500} }

NoResponse == [status_code |-> 0, is_json |-> FALSE, body |-> NoBody]

(***************************************************************************)
(* The state of one invocation.                                            *)
(***************************************************************************)
VARIABLES
    pc,                 \* where the invocation stands
    environ,            \* os.environ
    command,            \* the subcommand click dispatched, with its options
    query_string,       \* argument of search_and_output_bing
    params,             \* argument of search_and_output_bing
    search_url,         \* local of search_and_output_bing
    headers,            \* local of search_and_output_bing
    gets,               \* the requests.get calls made so far
    response,           \* what requests.get returned
    bing_response_json, \* the decoded body, whose articles are edited in place
    cleaned_list,       \* local of clean_bing_article_list
    idx,                \* position of the for loop in bing_article_list
    short_calls,        \* the URLs handed to shortener.qpsru.short so far
    stdout,             \* what click.secho has printed so far
    raised              \* the exception that left the command, or "None"

vars ==
    << pc, environ, command, query_string, params, search_url, headers, gets,
       response, bing_response_json, cleaned_list, idx, short_calls,
       stdout, raised >>

Init ==
    /\ pc = "cli"
    /\ environ \in Environments
    /\ command = None
    /\ query_string = ""
    /\ params = EmptyDict
    /\ search_url = ""
    /\ headers = EmptyDict
    /\ gets = <<>>
    /\ response = NoResponse
    /\ bing_response_json = None
    /\ cleaned_list = <<>>
    /\ idx = 1
    /\ short_calls = <<>>
    /\ stdout = <<>>
    /\ raised = "None"

\* click.secho(text) and click.secho(text, fg="red")
Echo(text) == [kind |-> "text", text |-> text]

EchoRed(text) == [kind |-> "error", text |-> text, fg |-> "red"]

\* click.secho(tabulate(rows, headers="keys", tablefmt="grid", ...))
EchoTable(rows) ==
    [kind |-> "table", headers |-> <<"Title", "Description", "URL">>,
     rows |-> rows]

\* an uncaught exception ends the process
Crash(exception) ==
    /\ raised' = exception
    /\ pc' = "crashed"

(***************************************************************************)
(* The subcommands.                                                        *)
(***************************************************************************)
\* search_and_output_bing(query_string, params): the call itself
CallSearch(qs, ps) ==
    /\ query_string' = qs
    /\ params' = ps
    /\ pc' = "config"

SearchByPhrase(search_phrase) ==
    /\ pc = "cli"
    /\ command' = [name |-> "phrase", search_phrase |-> search_phrase]
    /\ stdout' = Append(stdout,
                        Echo("Searching for " \o search_phrase \o "..."))
    /\ CallSearch("/search",
                  [q |-> search_phrase, textDecorations |-> FALSE])
    /\ UNCHANGED << environ, search_url, headers, gets, response,
                    bing_response_json, cleaned_list, idx, short_calls, raised >>

\* market and category in each other's place
CategoryQuery_Swapped(category, market) ==
    "?mkt=" \o category \o "&category=" \o market

\* line 117: the query string of the cat subcommand
CategoryQuery(category, market) ==
    "?mkt=" \o market \o "&category=" \o category

SearchByCategory(category, market) ==
    /\ pc = "cli"
    /\ command' = [name |-> "cat", category |-> category, market |-> market]
    /\ stdout' = Append(stdout,
           Echo("Searching for " \o category \o " in " \o market \o "..."))
    /\ CallSearch(CategoryQuery(category, market), EmptyDict)
    /\ UNCHANGED << environ, search_url, headers, gets, response,
                    bing_response_json, cleaned_list, idx, short_calls, raised >>

SearchByTrending(market) ==
    /\ pc = "cli"
    /\ command' = [name |-> "trend", market |-> market]
    /\ stdout' = Append(stdout,
           Echo("Searching for trending topics in " \o market \o "..."))
    /\ CallSearch("/trendingtopics?mkt=" \o market, EmptyDict)
    /\ UNCHANGED << environ, search_url, headers, gets, response,
                    bing_response_json, cleaned_list, idx, short_calls, raised >>

(***************************************************************************)
(* search_and_output_bing.                                                 *)
(***************************************************************************)
\* the assertion on the endpoint left out
ConfigOk_KeyOnly(e) == ~Getenv(e, "BING_SEARCH_KEY").is_none

\* the two assertions on the environment
ConfigOk(e) ==
    /\ ~Getenv(e, "BING_SEARCH_KEY").is_none
    /\ ~Getenv(e, "BING_SEARCH_ENDPOINT").is_none

\* lines 64-71: read the environment, build the URL and the header
CheckConfig ==
    /\ pc = "config"
    /\ IF ConfigOk(environ)
       THEN /\ search_url' = Getenv(environ, "BING_SEARCH_ENDPOINT").str
                             \o "v7.0/news" \o query_string
            /\ headers' = ("Ocp-Apim-Subscription-Key"
                               :> Getenv(environ, "BING_SEARCH_KEY").str)
            /\ pc' = "get"
            /\ UNCHANGED raised
       ELSE /\ Crash("AssertionError")
            /\ UNCHANGED << search_url, headers >>
    /\ UNCHANGED << environ, command, query_string, params, gets, response,
                    bing_response_json, cleaned_list, idx, short_calls, stdout >>

\* line 72: the search request, answered by the endpoint or failing on the
\* network
Get ==
    /\ pc = "get"
    /\ gets' = Append(gets, [url |-> search_url, headers |-> headers,
                             params |-> params])
    /\ \/ /\ response' \in Responses
          /\ pc' = "status"
          /\ UNCHANGED raised
       \/ /\ Crash("ConnectionError")
          /\ UNCHANGED response
    /\ UNCHANGED << environ, command, query_string, params, search_url,
                    headers, bing_response_json, cleaned_list, idx,
                    short_calls, stdout >>

\* only the client errors raise
IsHTTPError_ClientOnly(status_code) ==
    status_code >= 400 /\ status_code < 500

\* Response.raise_for_status raises on 4xx and 5xx
IsHTTPError(status_code) == status_code >= 400 /\ status_code < 600

\* the query string requests appends for the params dict
EncodedParams(ps) ==
    IF ps = EmptyDict THEN ""
    ELSE "?q=" \o ps.q \o "&textDecorations="
         \o (IF ps.textDecorations THEN "True" ELSE "False")

Reason(status_code) ==
    CASE status_code = 404 -> "Not Found"
      [] status_code = 500 -> "Internal Server Error"
      [] OTHER -> "Error"

\* str(HTTPError) as raise_for_status builds it
HTTPErrorMessage(status_code, url) ==
    ToString(status_code)
    \o (IF status_code < 500 THEN " Client Error: " ELSE " Server Error: ")
    \o Reason(status_code) \o " for url: " \o url

\* line 74
RaiseForStatus ==
    /\ pc = "status"
    /\ pc' = IF IsHTTPError(response.status_code) THEN "except" ELSE "json"
    /\ UNCHANGED << environ, command, query_string, params, search_url,
                    headers, gets, response, bing_response_json,
                    cleaned_list, idx, short_calls, stdout,
                    raised >>

\* the request made again after an HTTP error
HandleHTTPError_Retry ==
    /\ pc = "except"
    /\ stdout' = Append(stdout,
           EchoRed("Error: " \o HTTPErrorMessage(response.status_code,
                       search_url \o EncodedParams(params))))
    /\ pc' = "get"
    /\ UNCHANGED << environ, command, query_string, params, search_url,
                    headers, gets, response, bing_response_json,
                    cleaned_list, idx, short_calls, raised >>

\* lines 76-77: the except clause
HandleHTTPError ==
    /\ pc = "except"
    /\ stdout' = Append(stdout,
           EchoRed("Error: " \o HTTPErrorMessage(response.status_code,
                       search_url \o EncodedParams(params))))
    /\ pc' = "done"
    /\ UNCHANGED << environ, command, query_string, params, search_url,
                    headers, gets, response, bing_response_json,
                    cleaned_list, idx, short_calls, raised >>

\* line 75, the argument: response.json()
ResponseJson ==
    /\ pc = "json"
    /\ IF response.is_json
       THEN /\ bing_response_json' = response.body
            /\ pc' = "render"
            /\ UNCHANGED raised
       ELSE /\ Crash("JSONDecodeError")
            /\ UNCHANGED bing_response_json
    /\ UNCHANGED << environ, command, query_string, params, search_url,
                    headers, gets, response, cleaned_list, idx, short_calls, stdout >>

(***************************************************************************)
(* print_bing_results and clean_bing_article_list.                         *)
(***************************************************************************)
\* widths of the two wrapped columns
TitleWidth == 40

DescriptionWidth == 60

\* what the qps.ru service answers for a URL
ShortCode(url) ==
    CASE url = "https://news.example.com/election" -> "aB3"
      [] url = "https://news.example.com/markets" -> "c9D"
      [] url = "https://www.bing.com/news/search?q=Budget+vote" -> "e5F"
      [] url = "https://www.bing.com/news/search?q=Storm+warning" -> "g7H"
      [] url = "https://news.example.com/storm" -> "i1J"
      [] OTHER -> "k2L"

ShortUrl(url) == "https://qps.ru/" \o ShortCode(url)

\* line 34: the test that tells a trending-topic record
IsTrending(item) == "name" \in DOMAIN item /\ "webSearchUrl" \in DOMAIN item

\* the provider's type left out of the description
TrendingDescription_NoType(source) ==
    "Provided by " \o source.name \o "."

\* lines 23-25: the description made for a trending-topic record
TrendingDescription(source) ==
    "Provided by " \o source.name \o ", an " \o source._type \o "."

\* clean_trending_article_dictionary: the exception it raises, if any, and
\* the dictionary as it leaves it
CleanTrendingArticleDictionary(article_dictionary) ==
    IF "image" \notin DOMAIN article_dictionary
    THEN [exc |-> "KeyError", item |-> article_dictionary]
    ELSE IF "provider" \notin DOMAIN article_dictionary.image
    THEN [exc |-> "KeyError", item |-> article_dictionary]
    ELSE IF Len(article_dictionary.image.provider) = 0
    THEN [exc |-> "IndexError", item |-> article_dictionary]
    ELSE
      LET source == article_dictionary.image.provider[1]
          titled == SetKey(article_dictionary, "title",
                           article_dictionary.name)
          linked == SetKey(titled, "url", article_dictionary.webSearchUrl)
      IN  IF "name" \notin DOMAIN source \/ "_type" \notin DOMAIN source
          THEN [exc |-> "KeyError", item |-> linked]
          ELSE [exc |-> "None",
                item |-> SetKey(linked, "description",
                                TrendingDescription(source))]

\* lines 34-35
Normalize(item) ==
    IF IsTrending(item) THEN CleanTrendingArticleDictionary(item)
    ELSE [exc |-> "None", item |-> item]

\* lines 36-40: the keys the row reads
RowKeys == {"name", "description", "url"}

\* the description put in the row as it is, without wrapping
NewDictionary_Unwrapped(item, short) ==
    [Title |-> Join("\n", Wrap(item.name, TitleWidth)),
     Description |-> item.description,
     URL |-> short]

\* lines 36-40, given the answer of the shortening service
NewDictionary(item, short) ==
    [Title |-> Join("\n", Wrap(item.name, TitleWidth)),
     Description |-> Join("\n", Wrap(item.description, DescriptionWidth)),
     URL |-> short]

\* the row put at the front of the list instead of its end
AppendRow_Front(list, new_dictionary) == <<new_dictionary>> \o list

\* line 41: cleaned_list.append(new_dictionary)
AppendRow(list, new_dictionary) == Append(list, new_dictionary)

\* a summary line also when the response has no count, as
\* json.get("totalEstimatedMatches", 0) would
Summary_Always(json) ==
    << Echo(ToString(IF "totalEstimatedMatches" \in DOMAIN json
                     THEN json.totalEstimatedMatches ELSE 0)
            \o " estimated matches.") >>

\* lines 58-59: what is printed after the table
Summary(json) ==
    IF "totalEstimatedMatches" \in DOMAIN json
    THEN << Echo(ToString(json.totalEstimatedMatches)
                 \o " estimated matches.") >>
    ELSE << >>

\* a response without value taken for one without articles, as
\* bing_response_json.get("value", []) would
PrintBingResults_Lenient ==
    /\ pc = "render"
    /\ bing_response_json' =
           IF "value" \in DOMAIN bing_response_json THEN bing_response_json
           ELSE SetKey(bing_response_json, "value", <<>>)
    /\ cleaned_list' = <<>>
    /\ idx' = 1
    /\ pc' = "clean"
    /\ UNCHANGED << environ, command, query_string, params, search_url,
                    headers, gets, response, short_calls, stdout, raised >>

\* lines 47-49 and 31-32: the assertion, then the call of
\* clean_bing_article_list
PrintBingResults ==
    /\ pc = "render"
    /\ IF "value" \in DOMAIN bing_response_json
       THEN /\ cleaned_list' = <<>>
            /\ idx' = 1
            /\ pc' = "clean"
            /\ UNCHANGED raised
       ELSE /\ Crash("AssertionError")
            /\ UNCHANGED << cleaned_list, idx >>
    /\ UNCHANGED << environ, command, query_string, params, search_url,
                    headers, gets, response, bing_response_json, short_calls,
                    stdout >>

\* a record that fails is skipped and the loop goes on
CleanItem_SkipFailing ==
    /\ pc = "clean"
    /\ idx <= Len(bing_response_json.value)
    /\ LET normal == Normalize(bing_response_json.value[idx])
           item == normal.item
       IN  /\ bing_response_json' =
                  [bing_response_json EXCEPT !.value[idx] = item]
           /\ idx' = idx + 1
           /\ IF normal.exc /= "None" \/ ~(RowKeys \subseteq DOMAIN item)
              THEN UNCHANGED << cleaned_list, short_calls >>
              ELSE /\ short_calls' = Append(short_calls, item.url)
                   /\ \/ cleaned_list' =
                             AppendRow(cleaned_list,
                                 NewDictionary(item, ShortUrl(item.url)))
                      \/ UNCHANGED cleaned_list
    /\ UNCHANGED << environ, command, query_string, params, search_url,
                    headers, gets, response, stdout, pc, raised >>

\* lines 33-41: one pass of the loop, with its call of the shortening
\* service, which answers or raises
CleanItem ==
    /\ pc = "clean"
    /\ idx <= Len(bing_response_json.value)
    /\ LET normal == Normalize(bing_response_json.value[idx])
           item == normal.item
       IN  /\ bing_response_json' =
                  [bing_response_json EXCEPT !.value[idx] = item]
           /\ IF normal.exc /= "None"
              THEN /\ Crash(normal.exc)
                   /\ UNCHANGED << cleaned_list, idx, short_calls >>
              ELSE IF ~(RowKeys \subseteq DOMAIN item)
              THEN /\ Crash("KeyError")
                   /\ UNCHANGED << cleaned_list, idx, short_calls >>
              ELSE /\ short_calls' = Append(short_calls, item.url)
                   /\ \/ /\ cleaned_list' =
                               AppendRow(cleaned_list,
                                   NewDictionary(item, ShortUrl(item.url)))
                         /\ idx' = idx + 1
                         /\ UNCHANGED << pc, raised >>
                      \/ /\ Crash("ShorteningErrorException")
                         /\ UNCHANGED << cleaned_list, idx >>
    /\ UNCHANGED << environ, command, query_string, params, search_url,
                    headers, gets, response, stdout >>

\* lines 42 and 50-57: the loop is over, the table is printed
PrintTable ==
    /\ pc = "clean"
    /\ idx > Len(bing_response_json.value)
    /\ stdout' = Append(stdout, EchoTable(cleaned_list))
    /\ pc' = "summary"
    /\ UNCHANGED << environ, command, query_string, params, search_url,
                    headers, gets, response, bing_response_json,
                    cleaned_list, idx, short_calls, raised >>

\* lines 58-59
PrintSummary ==
    /\ pc = "summary"
    /\ stdout' = stdout \o Summary(bing_response_json)
    /\ pc' = "done"
    /\ UNCHANGED << environ, command, query_string, params, search_url,
                    headers, gets, response, bing_response_json,
                    cleaned_list, idx, short_calls, raised >>

Next ==
    \/ \E search_phrase \in Phrases : SearchByPhrase(search_phrase)
    \/ \E category \in Categories, market \in Markets :
           SearchByCategory(category, market)
    \/ \E market \in Markets : SearchByTrending(market)
    \/ CheckConfig
    \/ Get
    \/ RaiseForStatus
    \/ HandleHTTPError
    \/ ResponseJson
    \/ PrintBingResults
    \/ CleanItem
    \/ PrintTable
    \/ PrintSummary

Spec == Init /\ [][Next]_vars

(***************************************************************************)
(* Vocabulary of the properties.                                           *)
(***************************************************************************)
Terminal == pc \in {"done", "crashed"}

\* the articles as the endpoint sent them
InputArticles == response.body.value

\* print_bing_results has been called
Entered == bing_response_json /= None

TablesPrinted == {i \in 1..Len(stdout) : stdout[i].kind = "table"}

\* a printed line of the form "N estimated matches."
IsSummaryLine(line) ==
    /\ line.kind = "text"
    /\ Len(line.text) > 19
    /\ SubSeq(line.text, Len(line.text) - 18, Len(line.text)) =
           " estimated matches."

SummariesPrinted == {i \in 1..Len(stdout) : IsSummaryLine(stdout[i])}

ErrorsPrinted == {i \in 1..Len(stdout) : stdout[i].kind = "error"}

\* a record with both keys of the trending shape
HasTrendingKeys(article) == {"name", "webSearchUrl"} \subseteq DOMAIN article

\* a record the pipeline can turn into a row
WellFormed(article) ==
    IF HasTrendingKeys(article)
    THEN /\ "image" \in DOMAIN article
         /\ "provider" \in DOMAIN article.image
         /\ Len(article.image.provider) > 0
         /\ {"name", "_type"} \subseteq DOMAIN article.image.provider[1]
    ELSE {"name", "description", "url"} \subseteq DOMAIN article

WrappedCell(text, width) == Join("\n", Wrap(text, width))

\* C1: for a response whose value holds well-formed records only, and with
\* every shortening call answered, the printed table has exactly one row per
\* article of value and row i carries the title of article i and the short
\* form of its link: nothing dropped, duplicated or reordered.
C1_OneRowPerArticleInOrder ==
    /\ \A t \in TablesPrinted :
           /\ Len(stdout[t].rows) = Len(InputArticles)
           /\ \A i \in 1..Len(InputArticles) :
                  /\ stdout[t].rows[i].Title =
                         WrappedCell(InputArticles[i].name, 40)
                  /\ stdout[t].rows[i].URL =
                         ShortUrl(IF HasTrendingKeys(InputArticles[i])
                                  THEN InputArticles[i].webSearchUrl
                                  ELSE InputArticles[i].url)
    /\ ( /\ Terminal
         /\ Entered
         /\ "value" \in DOMAIN response.body
         /\ \A i \in 1..Len(InputArticles) : WellFormed(InputArticles[i])
         /\ raised /= "ShorteningErrorException" )
       => /\ pc = "done"
          /\ Cardinality(TablesPrinted) = 1

C1_Witness ==
    /\ pc = "done"
    /\ "value" \in DOMAIN response.body
    /\ InputArticles = <<TrendingArticle, LongArticle>>
    /\ \E t \in TablesPrinted :
           /\ Len(stdout[t].rows) = 2
           /\ stdout[t].rows[1].Title = "Budget vote"
           /\ stdout[t].rows[2].URL = "https://qps.ru/c9D"

\* C2: a response object without a value key fails the validation of
\* print_bing_results before anything is formatted: no record is normalised,
\* no row is built, no shortening call is made, neither the table nor the
\* summary line is printed, and the command ends on the AssertionError.
C2_MissingValueFailsFirst ==
    (Entered /\ "value" \notin DOMAIN response.body)
    => /\ pc \in {"render", "crashed"}
       /\ pc = "crashed" => raised = "AssertionError"
       /\ bing_response_json = response.body
       /\ cleaned_list = <<>>
       /\ short_calls = <<>>
       /\ TablesPrinted = {}
       /\ SummariesPrinted = {}

C2_Witness ==
    /\ pc = "crashed"
    /\ raised = "AssertionError"
    /\ Entered
    /\ "value" \notin DOMAIN response.body
    /\ "totalEstimatedMatches" \in DOMAIN response.body

C4_NoNetworkWithoutConfig ==
    ~({"BING_SEARCH_KEY", "BING_SEARCH_ENDPOINT"} \subseteq DOMAIN environ)
    => /\ gets = <<>>
       /\ short_calls = <<>>
       /\ response = NoResponse
       /\ pc \in {"cli", "config", "crashed"}
       /\ pc = "crashed" => raised = "AssertionError"

C4_Witness ==
    /\ pc = "crashed"
    /\ raised = "AssertionError"
    /\ DOMAIN environ = {"BING_SEARCH_KEY"}
    /\ command.name = "trend"
    /\ gets = <<>>

\* the records the loop has finished with
Processed == 1..Len(cleaned_list)

\* C5: a record with both a name and a webSearchUrl key is handled as a
\* trending record: the description its row is built from is exactly
\* "Provided by {image.provider[0].name}, an {image.provider[0]._type}." and
\* the URL handed to the shortener is its webSearchUrl.  A record lacking
\* one of the two keys is handled as a standard record: its row is built
\* from its own description and url, and the record is left as it was.
C5_ClassificationAndNormalization ==
    Entered /\ "value" \in DOMAIN response.body =>
    \A i \in Processed :
        LET article == InputArticles[i]
            cleaned == bing_response_json.value[i]
            row == cleaned_list[i]
        IN  IF {"name", "webSearchUrl"} \subseteq DOMAIN article
            THEN LET provider == article.image.provider[1]
                     text == "Provided by " \o provider.name \o ", an "
                             \o provider._type \o "."
                 IN  /\ cleaned.description = text
                     /\ row.Description = WrappedCell(text, 60)
                     /\ cleaned.url = article.webSearchUrl
                     /\ short_calls[i] = article.webSearchUrl
            ELSE /\ cleaned = article
                 /\ row.Description = WrappedCell(article.description, 60)
                 /\ short_calls[i] = article.url

C5_Witness ==
    /\ pc = "done"
    /\ "value" \in DOMAIN response.body
    /\ InputArticles = <<HybridArticle, StandardArticle>>
    /\ cleaned_list[1].Description = "Provided by AP, an Organization."
    /\ short_calls[1] = "https://www.bing.com/news/search?q=Storm+warning"
    /\ cleaned_list[2].Description = "Officials published the final count."
    /\ short_calls[2] = "https://news.example.com/election"

(***************************************************************************)
(* print_bing_results on its own: the render of a response that holds one  *)
(* standard record, over a range of descriptions.                          *)
(***************************************************************************)
\* the most words a description is made of
MaxWords == 3

RECURSIVE Repeat(_, _)
Repeat(c, n) ==
    IF n = 0 THEN ""
    ELSE IF n % 2 = 0 THEN Repeat(c, n \div 2) \o Repeat(c, n \div 2)
    ELSE c \o Repeat(c, n - 1)

\* words of a description: short, hyphenated, as long as the column, longer
\* than the column; the empty word makes leading, trailing and double spaces
DescriptionWords ==
    { "alpha",
      Repeat("h", 20) \o "-" \o Repeat("k", 20),
      Repeat("m", 30),
      Repeat("w", 60),
      Repeat("x", 61),
      "" }

Descriptions ==
    { Join(" ", ws) :
          ws \in UNION { [1..n -> DescriptionWords] : n \in 1..MaxWords } }

RenderedBody(description) ==
    [value |-> << [name |-> "Headline",
                   description |-> description,
                   url |-> "https://news.example.com/election"] >>,
     totalEstimatedMatches |-> 42]

\* the state in which search_and_output_bing calls print_bing_results, after
\* a phrase search answered with 200
RenderInit ==
    /\ pc = "render"
    /\ environ = [BING_SEARCH_KEY |-> KeyValue,
                  BING_SEARCH_ENDPOINT |-> EndpointValue]
    /\ command = [name |-> "phrase", search_phrase |-> "election"]
    /\ query_string = "/search"
    /\ params = [q |-> "election", textDecorations |-> FALSE]
    /\ search_url = EndpointValue \o "v7.0/news/search"
    /\ headers = ("Ocp-Apim-Subscription-Key" :> KeyValue)
    /\ gets = << [url |-> search_url, headers |-> headers,
                  params |-> params] >>
    /\ \E d \in Descriptions :
           response = [status_code |-> 200, is_json |-> TRUE,
                       body |-> RenderedBody(d)]
    /\ bing_response_json = response.body
    /\ cleaned_list = <<>>
    /\ idx = 1
    /\ short_calls = <<>>
    /\ stdout = << Echo("Searching for election...") >>
    /\ raised = "None"

RenderNext ==
    \/ PrintBingResults
    \/ CleanItem
    \/ PrintTable
    \/ PrintSummary

RenderSpec == RenderInit /\ [][RenderNext]_vars

\* a character that separates words in a table cell
IsSeparator(c) == c \in {" ", "\n"}

\* the first position at or after p that holds (does not hold) a separator
NextSeparator(s, p) ==
    CHOOSE e \in p..(Len(s) + 1) :
        /\ e = Len(s) + 1 \/ IsSeparator(CharAt(s, e))
        /\ \A j \in p..(e - 1) : ~IsSeparator(CharAt(s, j))

NextWordStart(s, p) ==
    CHOOSE e \in p..(Len(s) + 1) :
        /\ e = Len(s) + 1 \/ ~IsSeparator(CharAt(s, e))
        /\ \A j \in p..(e - 1) : IsSeparator(CharAt(s, j))

\* the words of a text: its runs of characters other than separators
RECURSIVE WordsFrom(_, _)
WordsFrom(s, p) ==
    LET b == NextWordStart(s, p)
        e == NextSeparator(s, b)
    IN  IF b > Len(s) THEN <<>>
        ELSE <<Slice(s, b, e - 1)>> \o WordsFrom(s, e)

WordsOf(s) == WordsFrom(s, 1)

\* the lines of a table cell
RECURSIVE LinesFrom(_, _)
LinesFrom(s, p) ==
    LET e == CHOOSE i \in p..(Len(s) + 1) :
                 /\ i = Len(s) + 1 \/ CharAt(s, i) = "\n"
                 /\ \A j \in p..(i - 1) : CharAt(s, j) /= "\n"
    IN  IF e > Len(s) THEN <<Slice(s, p, e - 1)>>
        ELSE <<Slice(s, p, e - 1)>> \o LinesFrom(s, e + 1)

LinesOf(cell) == IF cell = "" THEN <<>> ELSE LinesFrom(cell, 1)

HasHyphen(w) == \E i \in 1..Len(w) : CharAt(w, i) = "-"

\* the pieces a word was broken into respect the word: a word of at most 60
\* characters without a hyphen is in one piece, and a word of at most 60
\* characters is broken next to one of its hyphens only
PiecesRespect(w, pieces) ==
    /\ (Len(w) <= 60 /\ ~HasHyphen(w)) => Len(pieces) = 1
    /\ Len(w) <= 60 =>
           \A j \in 1..(Len(pieces) - 1) :
               \/ CharAt(pieces[j], Len(pieces[j])) = "-"
               \/ CharAt(pieces[j + 1], 1) = "-"
    /\ Len(w) > 60 => Len(pieces) >= 2

\* the words ws, in order, are the pieces ps glued together, each word
\* broken as PiecesRespect allows
RECURSIVE BrokenInto(_, _)
BrokenInto(ws, ps) ==
    IF ws = <<>> THEN ps = <<>>
    ELSE \E k \in 1..Len(ps) :
             /\ Join("", SubSeq(ps, 1, k)) = Head(ws)
             /\ PiecesRespect(Head(ws), SubSeq(ps, 1, k))
             /\ BrokenInto(Tail(ws), SubSeq(ps, k + 1, Len(ps)))

\* the length of a text without its leading and trailing spaces
StrippedLen(s) ==
    LET inked == {i \in 1..Len(s) : CharAt(s, i) /= " "}
    IN  IF inked = {} THEN 0
        ELSE (CHOOSE i \in inked : \A j \in inked : j <= i)
             - (CHOOSE i \in inked : \A j \in inked : j >= i) + 1

\* the description of the rendered record and the cell printed for it
RenderedDescription == InputArticles[1].description

RenderedCells == {stdout[t].rows[1].Description : t \in TablesPrinted}

\* C6 as stated: a standard record whose description is longer than 60
\* characters gets a Description cell of several lines, each of at most 60
\* characters, broken at word boundaries only: the words of the cell are the
\* words of the description, every one of them intact, the words longer
\* than the column included.
C6_Original ==
    Len(RenderedDescription) > 60 =>
    \A cell \in RenderedCells :
        /\ Len(LinesOf(cell)) >= 2
        /\ \A i \in 1..Len(LinesOf(cell)) : Len(LinesOf(cell)[i]) <= 60
        /\ WordsOf(cell) = WordsOf(RenderedDescription)

\* C6 (amended): a standard record whose description is longer than 60
\* characters gets a Description cell whose lines have at most 60 characters
\* each, at least two of them when the description is still longer than 60
\* characters without its leading and trailing whitespace.
\* No character of a word is lost; a word of at most 60 characters without
\* a hyphen is never split, a word of at most 60 characters with hyphens is
\* broken next to a hyphen only, and a word longer than 60 characters is cut
\* into pieces.
C6_WrappedWithinWidth ==
    Len(RenderedDescription) > 60 =>
    \A cell \in RenderedCells :
        /\ \A i \in 1..Len(LinesOf(cell)) : Len(LinesOf(cell)[i]) <= 60
        /\ StrippedLen(RenderedDescription) > 60 => Len(LinesOf(cell)) >= 2
        /\ BrokenInto(WordsOf(RenderedDescription), WordsOf(cell))

C6_Witness ==
    /\ pc = "done"
    /\ RenderedDescription =
           Repeat("m", 30) \o " " \o Repeat("x", 61) \o " alpha"
    /\ RenderedCells =
           { Repeat("m", 30) \o " " \o Repeat("x", 29) \o "\n"
             \o Repeat("x", 32) \o " alpha" }

\* the search request the invocation has to make, from the subcommand and
\* its options alone
ExpectedPath ==
    CASE command.name = "cat" ->
             "?mkt=" \o command.market \o "&category=" \o command.category
      [] command.name = "phrase" -> "/search"
      [] command.name = "trend" -> "/trendingtopics?mkt=" \o command.market

ExpectedParams ==
    IF command.name = "phrase"
    THEN [q |-> command.search_phrase, textDecorations |-> FALSE]
    ELSE EmptyDict

\* C7: the request is determined by the subcommand and its options: cat
\* with market M and category C asks for ?mkt=M&category=C with no
\* parameters, phrase with P asks for /search with {q: P, textDecorations:
\* false}, trend with M asks for /trendingtopics?mkt=M with no parameters;
\* the URL is {endpoint}v7.0/news{path} and the request carries the
\* subscription key header.
C7_RequestDeterminedByCommand ==
    /\ pc /= "cli" =>
           /\ query_string = ExpectedPath
           /\ params = ExpectedParams
    /\ \A g \in 1..Len(gets) :
           /\ gets[g].url = EndpointValue \o "v7.0/news" \o ExpectedPath
           /\ gets[g].params = ExpectedParams
           /\ gets[g].headers = ("Ocp-Apim-Subscription-Key" :> KeyValue)
    /\ ( /\ command /= None
         /\ command.name = "cat"
         /\ command.market = "en-US"
         /\ command.category = "Sports" )
       => query_string = "?mkt=en-US&category=Sports"
    /\ ( /\ command /= None
         /\ command.name = "phrase"
         /\ command.search_phrase = "election" )
       => /\ query_string = "/search"
          /\ params = [q |-> "election", textDecorations |-> FALSE]

C7_Witness ==
    /\ Len(gets) = 1
    /\ command = [name |-> "cat", category |-> "Sports", market |-> "en-US"]
    /\ gets[1].url =
           "https://api.bing.microsoft.com/v7.0/news?mkt=en-US&category=Sports"
    /\ gets[1].params = EmptyDict

HasTotal == "totalEstimatedMatches" \in DOMAIN response.body

\* the summary lines are well placed: at most one, last, right after the
\* table, and with the count of the response
SummaryAfterTable ==
    /\ Cardinality(SummariesPrinted) <= 1
    /\ \A i \in SummariesPrinted :
           /\ i = Len(stdout)
           /\ i > 1
           /\ stdout[i - 1].kind = "table"
           /\ HasTotal
           /\ stdout[i].text =
                  ToString(response.body.totalEstimatedMatches)
                  \o " estimated matches."

\* C8 as stated: print_bing_results prints the summary line "N estimated
\* matches." if and only if the response contains totalEstimatedMatches,
\* after the table; a response without the key prints the table and no
\* summary line.
C8_Original ==
    /\ SummaryAfterTable
    /\ (Terminal /\ Entered) =>
           /\ SummariesPrinted /= {} <=> HasTotal
           /\ ~HasTotal => TablesPrinted /= {}

\* C8 (amended): when print_bing_results has turned every record of value
\* into a row, it prints the table and then the summary line "N estimated
\* matches." if and only if the response contains totalEstimatedMatches,
\* with N that value; the summary line is never printed without the table
\* right before it, and a response without the key gets no summary line.
C8_SummaryIffTotalAfterTable ==
    /\ SummaryAfterTable
    /\ (pc = "done" /\ TablesPrinted /= {}) =>
           (SummariesPrinted /= {} <=> HasTotal)
    /\ (Entered /\ "value" \in DOMAIN response.body /\ Terminal
        /\ Len(cleaned_list) = Len(InputArticles)) =>
           /\ pc = "done"
           /\ Cardinality(TablesPrinted) = 1
    /\ ~HasTotal => SummariesPrinted = {}

C8_Witness ==
    /\ pc = "done"
    /\ Len(stdout) = 3
    /\ stdout[2].kind = "table"
    /\ stdout[3] = [kind |-> "text", text |-> "42 estimated matches."]

RowFailure == raised \in {"KeyError", "IndexError", "ShorteningErrorException"}

\* C9: a failure on one record (an empty provider list, a missing field, a
\* failing shortening call) aborts the whole render: the row is not skipped,
\* neither a table of the other rows nor a summary line is printed, and the
\* table is printed only after every record of value has been normalised
\* and shortened.
C9_NoPartialResults ==
    /\ RowFailure =>
           /\ pc = "crashed"
           /\ TablesPrinted = {}
           /\ SummariesPrinted = {}
    /\ TablesPrinted /= {} =>
           /\ raised = "None"
           /\ \A i \in 1..Len(InputArticles) : WellFormed(InputArticles[i])
           /\ Len(cleaned_list) = Len(InputArticles)
           /\ Len(short_calls) = Len(InputArticles)
    /\ ( /\ Terminal
         /\ Entered
         /\ "value" \in DOMAIN response.body
         /\ \E i \in 1..Len(InputArticles) : ~WellFormed(InputArticles[i]) )
       => (pc = "crashed" /\ RowFailure)

C9_Witness ==
    /\ pc = "crashed"
    /\ raised = "IndexError"
    /\ InputArticles = <<StandardArticle, NoProviderArticle>>
    /\ Len(cleaned_list) = 1
    /\ TablesPrinted = {}
    /\ HasTotal

\* the shortening calls follow the records of value: one call per record,
\* in order, after the search request, and as many as rows when the table
\* is printed
ShorteningFollowsValue ==
    /\ short_calls /= <<>> => Len(gets) = 1
    /\ Entered /\ "value" \in DOMAIN response.body =>
           /\ Len(short_calls) <= Len(InputArticles)
           /\ \A i \in 1..Len(short_calls) :
                  short_calls[i] =
                      IF HasTrendingKeys(InputArticles[i])
                      THEN InputArticles[i].webSearchUrl
                      ELSE InputArticles[i].url
    /\ ~Entered => short_calls = <<>>
    /\ \A t \in TablesPrinted : Len(short_calls) = Len(stdout[t].rows)

\* C10 as stated: every invocation issues exactly one search GET, never
\* retried, before every shortening call; the shortening service is called
\* at most once per record of value, in input order, and exactly once per
\* record when the render completes.
C10_Original ==
    /\ Len(gets) <= 1
    /\ Terminal => Len(gets) = 1
    /\ ShorteningFollowsValue

\* C10 (amended): every invocation issues at most one search GET, never
\* retried: exactly one when both environment variables are present, none
\* when the configuration check fails.  The GET precedes every shortening
\* call; the shortening service is called at most once per record of value,
\* in input order, and exactly once per record when the render completes.
C10_OneGetThenOneCallPerRow ==
    /\ Len(gets) <= 1
    /\ Terminal =>
           Len(gets) =
               IF {"BING_SEARCH_KEY", "BING_SEARCH_ENDPOINT"}
                      \subseteq DOMAIN environ
               THEN 1 ELSE 0
    /\ ShorteningFollowsValue

C10_Witness ==
    /\ pc = "done"
    /\ Len(gets) = 1
    /\ "value" \in DOMAIN response.body
    /\ Len(InputArticles) = 2
    /\ short_calls = << "https://news.example.com/markets",
                        "https://www.bing.com/news/search?q=Budget+vote" >>
    /\ \E t \in TablesPrinted : Len(stdout[t].rows) = 2

====
